---- MODULE Spec2Model ----
(***************************************************************************)
(* State-machine model of the Google Places collector                      *)
(*   src/naver_blog_to_places.py     ("full" variant: seen cache, country  *)
(*                                    filter, exclude types, details)      *)
(*   src/naver_blog_to_places.py.py  ("fast" variant: 100-cap, area_filter)*)
(*                                                                         *)
(* Conventions                                                             *)
(*  - A Python str that is inspected character by character (addresses,    *)
(*    area, country) is a sequence of one-character strings.  A Hangul     *)
(*    syllable is written as one element "h:<romanisation>"; str.lower()   *)
(*    leaves it unchanged.                                                 *)
(*  - An optional value (dict.get returning None) is <<>> for None and     *)
(*    <<v>> for the value v.                                               *)
(*  - rating is kept in tenths (4.2 is 42).                                *)
(***************************************************************************)
EXTENDS Integers, Sequences, FiniteSets, TLC

(***************************************************************************)
(* Bounds of the model                                                     *)
(***************************************************************************)
\* most hits in one search response
MaxPageLen == 2
\* most runs of main() in one behaviour
MaxRuns == 2
\* most responses of one pagination (one text search, one grid centre and
\* type) that carry a next_page_token
MaxTokens == 1

(***************************************************************************)
(* Python values                                                           *)
(***************************************************************************)
None == <<>>

Some(v) == <<v>>

\* x or 0   (None and 0 are both falsy)
OrZero(x) == IF x = None THEN 0 ELSE x[1]

Range(s) == {s[i] : i \in 1..Len(s)}

Max(a, b) == IF a >= b THEN a ELSE b

Min(a, b) == IF a <= b THEN a ELSE b

(***************************************************************************)
(* str helpers                                                             *)
(***************************************************************************)
UpperChars == <<"A","B","C","D","E","F","G","H","I","J","K","L","M",
                "N","O","P","Q","R","S","T","U","V","W","X","Y","Z">>

LowerChars == <<"a","b","c","d","e","f","g","h","i","j","k","l","m",
                "n","o","p","q","r","s","t","u","v","w","x","y","z">>

LowerChar(c) ==
    IF \E i \in 1..Len(UpperChars) : UpperChars[i] = c
    THEN LowerChars[CHOOSE i \in 1..Len(UpperChars) : UpperChars[i] = c]
    ELSE c

\* str.lower()
Lower(s) == [i \in 1..Len(s) |-> LowerChar(s[i])]

\* sub in s     (the empty string is in every string)
Contains(sub, s) ==
    \E i \in 0..(Len(s) - Len(sub)) : SubSeq(s, i + 1, i + Len(sub)) = sub

IsSpace(c) == c \in {" ", "\t"}

\* [t for t in re.split(r"\s+", area.strip()) if t]: the maximal runs of
\* non-whitespace characters, in order
RECURSIVE SplitWs(_, _, _)
SplitWs(s, i, cur) ==
    IF i > Len(s)
    THEN IF cur = <<>> THEN <<>> ELSE <<cur>>
    ELSE IF IsSpace(s[i])
         THEN (IF cur = <<>> THEN <<>> ELSE <<cur>>) \o SplitWs(s, i + 1, <<>>)
         ELSE SplitWs(s, i + 1, Append(cur, s[i]))

Tokens(area) == SplitWs(area, 1, <<>>)

(***************************************************************************)
(* AREA_ALIAS and the area-token filter                                    *)
(***************************************************************************)
AliasKeys ==
    << <<"h:do","h:kyo">>, <<"h:si","h:bu","h:ya">>, <<"h:sin","h:ju","h:ku">>,
       <<"h:o","h:sa","h:ka">>, <<"h:gyo","h:to">>, <<"h:sat","h:po","h:ro">>,
       <<"h:hu","h:ku","h:o","h:ka">>, <<"h:se","h:bu">>, <<"h:mak","h:tan">>,
       <<"h:bang","h:kok">> >>

AliasVals ==
    << <<"t","o","k","y","o">>, <<"s","h","i","b","u","y","a">>,
       <<"s","h","i","n","j","u","k","u">>, <<"o","s","a","k","a">>,
       <<"k","y","o","t","o">>, <<"s","a","p","p","o","r","o">>,
       <<"f","u","k","u","o","k","a">>, <<"c","e","b","u">>,
       <<"m","a","c","t","a","n">>, <<"b","a","n","g","k","o","k">> >>

\* AREA_ALIAS.get(tok, "")
AREA_ALIAS_get(tok) ==
    IF \E i \in 1..Len(AliasKeys) : AliasKeys[i] = tok
    THEN AliasVals[CHOOSE i \in 1..Len(AliasKeys) : AliasKeys[i] = tok]
    ELSE <<>>

\* normalize_address(fmt, area)
normalize_address(fmt, area) ==
    IF area = <<>> THEN TRUE
    ELSE LET lowered == Lower(fmt)
             toks    == Tokens(area)
         IN  \/ \E i \in 1..Len(toks) : Contains(Lower(toks[i]), lowered)
             \/ \E i \in 1..Len(toks) :
                    Contains(Lower(AREA_ALIAS_get(toks[i])), lowered)

\* area_pass(fmt, area, mode)   (fast variant)
area_pass(fmt, area, mode) ==
    IF mode = "none" THEN TRUE
    ELSE IF area = <<>> THEN TRUE
    ELSE LET low  == Lower(fmt)
             toks == Tokens(area)
         IN  \/ \E i \in 1..Len(toks) : Contains(Lower(toks[i]), low)
             \/ \E i \in 1..Len(toks) :
                    Contains(Lower(AREA_ALIAS_get(toks[i])), low)

(***************************************************************************)
(* Search hits and emitted records                                         *)
(*                                                                         *)
(* A hit is one element of a response's "results":                         *)
(*   place_id, name       strings ("" when the key is absent)              *)
(*   formatted_address,                                                    *)
(*   vicinity             character sequences (<<>> when absent or empty)  *)
(*   types                the list of type tags                            *)
(*   rating,                                                               *)
(*   user_ratings_total,                                                   *)
(*   lat, lng             optional numbers                                 *)
(*   business_status      string                                           *)
(*   lookup               what place_details(place_id) answers when the    *)
(*                        country code of this hit is looked up:           *)
(*                        [ok |-> FALSE, cc |-> None] the request raises,  *)
(*                        [ok |-> TRUE, cc |-> None] no country component, *)
(*                        [ok |-> TRUE, cc |-> Some(code)]                 *)
(***************************************************************************)
\* bool(s) of an optional string: None and "" are falsy
Truthy(x) == x # None /\ x[1] # ""

\* get_country_code_safe(place_id), given the answer of the details request
get_country_code_safe(lookup) ==
    IF lookup.ok THEN lookup.cc ELSE None

\* set((include_types or "").split(",")) - {""}; the argument is given as the
\* list of its comma-separated fields ("" is the one-field list <<"">>)
TypeSet(fields) == Range(fields) \ {""}

\* fmt of a hit: top.get("formatted_address", "") or "" in text mode,
\* top.get("vicinity") or top.get("formatted_address", "") or "" in nearby mode
FmtOf(top, mode) ==
    IF mode = "text" THEN top.formatted_address
    ELSE IF top.vicinity # <<>> THEN top.vicinity ELSE top.formatted_address

\* QualityOk with `and` for `or`: a hit fails only when both are too low
QualityOk_And(top, a) ==
    ~(OrZero(top.rating) < a.min_rating
        /\ OrZero(top.user_ratings_total) < a.min_reviews)

\* the quality test shared by all four collectors:
\* not (rating < min_rating or reviews < min_reviews)
QualityOk(top, a) ==
    ~(OrZero(top.rating) < a.min_rating
        \/ OrZero(top.user_ratings_total) < a.min_reviews)

\* collect_textsearch: the hit reaches out.append (no `continue` taken)
PassTextFull(top, a, seen, tcc) ==
    LET tset        == Range(top.types)
        include_set == TypeSet(a.include_types)
        exclude_set == TypeSet(a.exclude_types)
        cc          == get_country_code_safe(top.lookup)
    IN  /\ ~(a.skip_seen /\ top.place_id \in seen)
        /\ normalize_address(FmtOf(top, "text"), a.area)
        /\ ~(include_set # {} /\ tset \cap include_set = {})
        /\ ~(exclude_set # {} /\ tset \cap exclude_set # {})
        /\ QualityOk(top, a)
        /\ ~(Truthy(tcc) /\ cc # tcc)

\* collect_nearby_grid: the hit reaches out.append; include_types is only the
\* `type` parameter of the request, the hit's own types are tested against
\* exclude_set alone
PassNearbyFull(top, a, seen, tcc) ==
    LET tset        == Range(top.types)
        exclude_set == TypeSet(a.exclude_types)
        cc          == get_country_code_safe(top.lookup)
    IN  /\ ~(a.skip_seen /\ top.place_id \in seen)
        /\ normalize_address(FmtOf(top, "nearby"), a.area)
        /\ ~(exclude_set # {} /\ tset \cap exclude_set # {})
        /\ QualityOk(top, a)
        /\ ~(Truthy(tcc) /\ cc # tcc)

\* text_search of the fast variant
PassTextFast(top, a) ==
    /\ area_pass(FmtOf(top, "text"), a.area, a.area_filter)
    /\ (a.include_types # <<"">> =>
            Range(top.types) \cap Range(a.include_types) # {})
    /\ QualityOk(top, a)

\* nearby of the fast variant
PassNearbyFast(top, a) ==
    /\ area_pass(FmtOf(top, "nearby"), a.area, a.area_filter)
    /\ QualityOk(top, a)

Pass(top, a, seen, tcc) ==
    CASE a.variant = "full" /\ a.mode = "text"   -> PassTextFull(top, a, seen, tcc)
      [] a.variant = "full" /\ a.mode = "nearby" -> PassNearbyFull(top, a, seen, tcc)
      [] a.variant = "fast" /\ a.mode = "text"   -> PassTextFast(top, a)
      [] a.variant = "fast" /\ a.mode = "nearby" -> PassNearbyFast(top, a)

\* The tests of one iteration of `for top in results`, in the order the code
\* has them, each with what it gives for the hit (ok: no `continue`).  The
\* "country" test is the lookup get_country_code_safe(pid) and the comparison
\* with target_country_code.
TestsTextFull(top, a, seen, tcc) ==
    LET tset        == Range(top.types)
        include_set == TypeSet(a.include_types)
        exclude_set == TypeSet(a.exclude_types)
        cc          == get_country_code_safe(top.lookup)
    IN  << [test |-> "seen",    ok |-> ~(a.skip_seen /\ top.place_id \in seen)],
           [test |-> "area",    ok |-> normalize_address(FmtOf(top, "text"), a.area)],
           [test |-> "include", ok |-> ~(include_set # {} /\ tset \cap include_set = {})],
           [test |-> "exclude", ok |-> ~(exclude_set # {} /\ tset \cap exclude_set # {})],
           [test |-> "quality", ok |-> QualityOk(top, a)],
           [test |-> "country", ok |-> ~(Truthy(tcc) /\ cc # tcc)] >>

TestsNearbyFull(top, a, seen, tcc) ==
    LET tset        == Range(top.types)
        exclude_set == TypeSet(a.exclude_types)
        cc          == get_country_code_safe(top.lookup)
    IN  << [test |-> "seen",    ok |-> ~(a.skip_seen /\ top.place_id \in seen)],
           [test |-> "area",    ok |-> normalize_address(FmtOf(top, "nearby"), a.area)],
           [test |-> "exclude", ok |-> ~(exclude_set # {} /\ tset \cap exclude_set # {})],
           [test |-> "quality", ok |-> QualityOk(top, a)],
           [test |-> "country", ok |-> ~(Truthy(tcc) /\ cc # tcc)] >>

TestsTextFast(top, a) ==
    << [test |-> "area",    ok |-> area_pass(FmtOf(top, "text"), a.area, a.area_filter)],
       [test |-> "include", ok |-> (a.include_types # <<"">> =>
                                      Range(top.types) \cap Range(a.include_types) # {})],
       [test |-> "quality", ok |-> QualityOk(top, a)] >>

TestsNearbyFast(top, a) ==
    << [test |-> "area",    ok |-> area_pass(FmtOf(top, "nearby"), a.area, a.area_filter)],
       [test |-> "quality", ok |-> QualityOk(top, a)] >>

Tests(top, a, seen, tcc) ==
    CASE a.variant = "full" /\ a.mode = "text"   -> TestsTextFull(top, a, seen, tcc)
      [] a.variant = "full" /\ a.mode = "nearby" -> TestsNearbyFull(top, a, seen, tcc)
      [] a.variant = "fast" /\ a.mode = "text"   -> TestsTextFast(top, a)
      [] a.variant = "fast" /\ a.mode = "nearby" -> TestsNearbyFast(top, a)

\* every test evaluated, whatever the tests before it gave
Evaluated_All(tests) == tests

\* the tests the iteration evaluates: each `continue` ends it, so they are
\* the tests up to the first that fails
Evaluated(tests) ==
    LET fails == {i \in 1..Len(tests) : ~tests[i].ok}
    IN  IF fails = {} THEN tests
        ELSE SubSeq(tests, 1, CHOOSE i \in fails : \A j \in fails : i <= j)

\* the dict appended to out.  The fast variant's dict has no
\* resolved_country_code and no business_status: they are "" here.
EmitFull(top, mode) ==
    LET cc == get_country_code_safe(top.lookup)
    IN  [ name                  |-> top.name,
          formatted_address     |-> FmtOf(top, mode),
          place_id              |-> top.place_id,
          rating                |-> OrZero(top.rating),
          user_ratings_total    |-> OrZero(top.user_ratings_total),
          types                 |-> top.types,
          lat                   |-> top.lat,
          lng                   |-> top.lng,
          resolved_country_code |-> IF Truthy(cc) THEN cc[1] ELSE "",
          business_status       |-> top.business_status,
          enriched              |-> FALSE ]

EmitFast(top, mode) ==
    [ name                  |-> top.name,
      formatted_address     |-> FmtOf(top, mode),
      place_id              |-> top.place_id,
      rating                |-> OrZero(top.rating),
      user_ratings_total    |-> OrZero(top.user_ratings_total),
      types                 |-> top.types,
      lat                   |-> top.lat,
      lng                   |-> top.lng,
      resolved_country_code |-> "",
      business_status       |-> "",
      enriched              |-> FALSE ]

Emit(top, a) ==
    IF a.variant = "full" THEN EmitFull(top, a.mode) ELSE EmitFast(top, a.mode)

\* cap = min(100, max(1, args.max_results)) in the fast variant; the full
\* variant passes args.max_results as it is
HardCap == 100

\* the cap without min(100, ...)
Cap_NoHardCap(a) ==
    IF a.variant = "fast" THEN Max(1, a.max_results) ELSE a.max_results

Cap(a) ==
    IF a.variant = "fast" THEN Min(HardCap, Max(1, a.max_results))
    ELSE a.max_results

(***************************************************************************)
(* dedupe                                                                  *)
(***************************************************************************)
\* the dict key of a row in main(): place_id, or f"{name}@{address}" when
\* place_id is falsy.  A provider id holds no "@", so the two kinds of key
\* are kept apart by a tag.
KeyOf(r) ==
    IF r.place_id = "" THEN <<"name@address", r.name, r.formatted_address>>
    ELSE <<"place_id", r.place_id, <<>>>>

\* position of key k among the values kept so far (0: not there)
PosOf(vals, k) ==
    IF \E i \in 1..Len(vals) : KeyOf(vals[i]) = k
    THEN CHOOSE i \in 1..Len(vals) : KeyOf(vals[i]) = k
    ELSE 0

\* DedupeStepFull without the `key not in by_place` test: every row is kept
DedupeStepFull_KeepAll(vals, r) == Append(vals, r)

\* one iteration of `for r in rows` of the full variant: by_place is an
\* insertion-ordered dict, given as the list of its values
DedupeStepFull(vals, r) ==
    LET p == PosOf(vals, KeyOf(r))
    IN  IF p = 0 THEN Append(vals, r)
        ELSE IF r.user_ratings_total > vals[p].user_ratings_total
             THEN [vals EXCEPT ![p] = r]
             ELSE vals

RECURSIVE DedupeFull(_, _, _)
DedupeFull(rows, i, vals) ==
    IF i > Len(rows) THEN vals
    ELSE DedupeFull(rows, i + 1, DedupeStepFull(vals, rows[i]))

\* one iteration of the fast variant: `if pid and pid not in uniq`
DedupeStepFast(vals, r) ==
    IF r.place_id # "" /\ \A i \in 1..Len(vals) : vals[i].place_id # r.place_id
    THEN Append(vals, r)
    ELSE vals

RECURSIVE DedupeFast(_, _, _)
DedupeFast(rows, i, vals) ==
    IF i > Len(rows) THEN vals
    ELSE DedupeFast(rows, i + 1, DedupeStepFast(vals, rows[i]))

\* dedupe that keeps the first row of a place_id in both variants
Dedupe_FirstArrival(rows, a) ==
    SubSeq(DedupeFast(rows, 1, <<>>), 1,
           Min(Cap(a), Len(DedupeFast(rows, 1, <<>>))))

\* rows_final before details, for either variant
Dedupe(rows, a) ==
    IF a.variant = "full" THEN DedupeFull(rows, 1, <<>>)
    ELSE SubSeq(DedupeFast(rows, 1, <<>>), 1,
                Min(Cap(a), Len(DedupeFast(rows, 1, <<>>))))

(***************************************************************************)
(* Details enrichment, final business-status filter, export                *)
(***************************************************************************)
\* The body of `for r in rows` in enrich_with_details for one row, given the
\* answer d of place_details: [ok |-> FALSE, ...] the request raises (the
\* except clause leaves the row as it is), else the row gets the details
\* columns and res.get("business_status", r.get("business_status", "")).
\* A row without place_id is skipped before the request.
EnrichRowFull(r, d) ==
    IF r.place_id = "" \/ ~d.ok THEN r
    ELSE [r EXCEPT !.business_status =
                       IF d.business_status = None THEN r.business_status
                       ELSE d.business_status[1],
                   !.enriched = TRUE]

\* details_enrich of the fast variant: website, phone, opening hours, price
\* level and url only
EnrichRowFast(r, d) ==
    IF r.place_id = "" \/ ~d.ok THEN r
    ELSE [r EXCEPT !.enriched = TRUE]

EnrichRow(r, d, a) ==
    IF a.variant = "full" THEN EnrichRowFull(r, d) ELSE EnrichRowFast(r, d)

\* business_status_filter is given as the list bf.split("("); "mugwan"
\* ("does not matter") is the one-field list <<"h:mugwan">>
BfActive(bf) == bf # <<"">> /\ bf # <<"h:mugwan">>

\* rows_final = [r for r in rows_final
\*               if (r.get("business_status") or "") == bf.split("(")[0]]
BusinessFilter(rows, bf) ==
    IF BfActive(bf)
    THEN SelectSeq(rows, LAMBDA r : r.business_status = bf[1])
    ELSE rows

\* the features with `if not r.get("lat") or not r.get("lng")` as the test:
\* a coordinate of 0 counts as missing
Features_Truthy(rows, i) ==
    LET sel == SelectSeq(SubSeq(rows, i, Len(rows)),
                         LAMBDA r : /\ r.lat # None /\ r.lng # None
                                    /\ r.lat[1] # 0 /\ r.lng[1] # 0)
    IN  [k \in 1..Len(sel) |->
            [ type       |-> "Feature",
              geometry   |-> [ type        |-> "Point",
                               coordinates |-> <<sel[k].lng[1], sel[k].lat[1]>> ],
              properties |-> sel[k] ]]

\* write_geojson: the features, in row order
RECURSIVE Features(_, _)
Features(rows, i) ==
    IF i > Len(rows) THEN <<>>
    ELSE IF rows[i].lat = None \/ rows[i].lng = None
         THEN Features(rows, i + 1)
         ELSE << [ type        |-> "Feature",
                   geometry    |-> [ type        |-> "Point",
                                     coordinates |-> <<rows[i].lng[1],
                                                       rows[i].lat[1]>> ],
                   properties  |-> rows[i] ] >> \o Features(rows, i + 1)

write_geojson(rows) == [exists |-> TRUE, features |-> Features(rows, 1)]

\* write_csv that leaves the file as if it had not been written
write_csv_Skip(rows) == [exists |-> FALSE, rows |-> <<>>]

\* write_csv: one line per row, in row order
write_csv(rows) == [exists |-> TRUE, rows |-> rows]

(***************************************************************************)
(* Seen cache: <out_dir>/seen_place_ids.json                               *)
(*   kind "missing"      no such file                                      *)
(*        "undecodable"  bytes that are not UTF-8: reading raises          *)
(*        "badjson"      text that is not JSON                             *)
(*        "scalar"       a JSON number or null: set() of it raises         *)
(*        "list"         a JSON list of strings, held in items             *)
(***************************************************************************)
\* the place ids of the model, in sorted() order
PidOrder == <<"p1", "p2", "p3">>

Pids == Range(PidOrder)

\* the try block of load_seen: open, json.load, set(...).  exc is the
\* exception it raises ("none": it returns value)
TryLoad(f) ==
    CASE f.kind = "missing"     -> [exc |-> "FileNotFoundError", value |-> {}]
      [] f.kind = "undecodable" -> [exc |-> "UnicodeDecodeError", value |-> {}]
      [] f.kind = "badjson"     -> [exc |-> "JSONDecodeError", value |-> {}]
      [] f.kind = "scalar"      -> [exc |-> "TypeError", value |-> {}]
      [] f.kind = "list"        -> [exc |-> "none", value |-> Range(f.items)]

\* load_seen with `except FileNotFoundError` in place of `except Exception`
load_seen_NarrowExcept(f) ==
    IF TryLoad(f).exc = "FileNotFoundError"
    THEN [exc |-> "none", value |-> {}]
    ELSE TryLoad(f)

\* load_seen(path): `except Exception: return set()`
load_seen(f) ==
    IF TryLoad(f).exc # "none"
    THEN [exc |-> "none", value |-> {}]
    ELSE TryLoad(f)

\* the identifiers a later load_seen(path) reads from the file
Persisted(f) == load_seen(f).value

\* sorted(list(s))
Sorted(s) == SelectSeq(PidOrder, LAMBDA x : x \in s)

\* the file after save_seen(path, s)
save_seen(f, s) == [kind |-> "list", items |-> Sorted(s)]

\* the file after `if args.reset_seen and os.path.exists(seen_path): os.remove`
ResetSeen(f, a) ==
    IF a.reset_seen /\ f.kind # "missing"
    THEN [kind |-> "missing", items |-> <<>>]
    ELSE f

\* LoadAtStart that reads nothing: the run starts from the empty set
LoadAtStart_Empty(f, a) == [exc |-> "none", value |-> {}]

\* seen_ids = load_seen(seen_path) if args.skip_seen else set()
LoadAtStart(f, a) ==
    IF a.skip_seen THEN load_seen(ResetSeen(f, a))
    ELSE [exc |-> "none", value |-> {}]

\* seen_ids.update with the new ids dropped
SeenUpdate_Forget(seen, rows) == seen

\* seen_ids.update([r.get("place_id") for r in rows_final if r.get("place_id")])
SeenUpdate(seen, rows) ==
    seen \cup {rows[i].place_id : i \in {j \in 1..Len(rows) : rows[j].place_id # ""}}

(***************************************************************************)
(* Geocoding and the country fallback                                      *)
(***************************************************************************)
\* the fixed lexicon of main(): `"<name>" in args.country` -> code
CountryNames ==
    << <<"h:il","h:bon">>, <<"h:pil","h:li","h:pin">>, <<"h:tae","h:guk">>,
       <<"h:peu","h:rang","h:seu">>, <<"h:mi","h:guk">> >>

CountryCodes == <<"JP", "PH", "TH", "FR", "US">>

\* the if/elif chain: the first name contained in args.country decides
FallbackCode(country) ==
    IF \E i \in 1..Len(CountryNames) : Contains(CountryNames[i], country)
    THEN LET first == CHOOSE i \in 1..Len(CountryNames) :
                        /\ Contains(CountryNames[i], country)
                        /\ \A j \in 1..(i - 1) : ~Contains(CountryNames[j], country)
         IN  Some(CountryCodes[first])
    ELSE None

\* country_code after lines 500-512, given geocode's third result cc
TargetCountryCode(cc, country) ==
    IF Truthy(cc) THEN cc ELSE FallbackCode(country)

\* make_grid with range(-half, half) for both loops
make_grid_Exclusive(steps) ==
    LET half == IF steps < 1 THEN 1 ELSE steps
        n    == 2 * half
    IN  [k \in 1..(n * n) |-> <<((k - 1) \div n) - half, ((k - 1) % n) - half>>]

\* make_grid: the offsets (dy, dx) of the centres in the order they are
\* yielded; centre k is (center_lat + dy*lat_deg_step, center_lng + dx*lng_deg_step)
make_grid(steps) ==
    LET half == IF steps < 1 THEN 1 ELSE steps
        n    == 2 * half + 1
    IN  [k \in 1..(n * n) |-> <<((k - 1) \div n) - half, ((k - 1) % n) - half>>]

\* include_list of the nearby collectors
IncludeList(a) ==
    LET l == SelectSeq(a.include_types, LAMBDA t : t # "")
    IN  IF l = <<>> THEN <<"restaurant">> ELSE l

(***************************************************************************)
(* Requests and sleeps.  Time is counted in milliseconds of time.sleep;    *)
(* a request and the code between two sleeps take no time, so the counts   *)
(* are the least time that can have passed.                                *)
(***************************************************************************)
\* time.sleep(max(0, sleep_ms) / 1000.0)
InterCallSleep(a) == Max(0, a.sleep_ms)

\* the head of a pagination iteration with the settle sleep left out
SettleSleep_None(tok) == 0

\* the head of a pagination iteration:
\* `if page_token: params["pagetoken"] = page_token; time.sleep(2.0)`
SettleSleep(tok) == IF tok THEN 2000 ELSE 0

\* the hit reaches `cc = get_country_code_safe(pid)`: only the collectors of
\* the full variant look the country up, after the seen, area, type and
\* quality tests (the lookup is a Place Details request)
ReachesLookup(top, a, seen) ==
    LET tset        == Range(top.types)
        include_set == TypeSet(a.include_types)
        exclude_set == TypeSet(a.exclude_types)
    IN  /\ a.variant = "full"
        /\ ~(a.skip_seen /\ top.place_id \in seen)
        /\ normalize_address(FmtOf(top, a.mode), a.area)
        /\ (a.mode = "text" => ~(include_set # {} /\ tset \cap include_set = {}))
        /\ ~(exclude_set # {} /\ tset \cap exclude_set # {})
        /\ QualityOk(top, a)

\* the two most recent requests to the Places API of the current run (kinds
\* "search", "lookup", "details"; "none" when there was none) and the sleep
\* between them
NoGap == [prev |-> "none", last |-> "none", ms |-> 0]

\* gap after a Places request of the given kind sent when w ms were slept
\* since the request before
PlacesRequest(g, kind, w) == [prev |-> g.last, last |-> kind, ms |-> w]

\* the log of provider answers: off, or one list of answers per run
NoLog == [on |-> FALSE, runs |-> <<>>]

EmptyLog == [on |-> TRUE, runs |-> <<>>]

\* one answer, as an entry of the log
Answer(kind, val) == [kind |-> kind, val |-> val]

\* the log with a list opened for a new run
LogRun(l) == IF l.on THEN [l EXCEPT !.runs = Append(@, <<>>)] ELSE l

\* the log with an answer added to the current run
LogAnswer(l, e) ==
    IF l.on THEN [l EXCEPT !.runs[Len(l.runs)] = Append(@, e)] ELSE l

(***************************************************************************)
(* State                                                                   *)
(***************************************************************************)
VARIABLES
    pc,           \* where main() is: "idle" (not running), "geocode", "search"
                  \* (about to send a search request), "hits" (in `for top in
                  \* results`), "dedupe", "enrich", "final", "done", "aborted"
    args,         \* the parsed command line of the current run
    file,         \* seen_place_ids.json in out_dir
    seen_ids,     \* main(): seen_ids
    loc_bias,     \* main(): loc_bias (None or Some(<<lat, lng>>))
    country_code, \* main(): country_code after the fallback (optional string)
    out,          \* the collector's out
    next_token,   \* whether the last response carried next_page_token
    page_token,   \* the collector's page_token is set
    pending,      \* hits of the current response not yet iterated
    pageNo,       \* search requests sent in the current pagination (nearby:
                  \* counted up to MaxTokens + 1)
    gridPos,      \* nearby: index of the current grid centre
    typeIdx,      \* nearby: index of the current place_type in include_list
    rows_final,   \* main(): rows_final (rows in the fast variant, after dedupe)
    enrichPos,    \* index of the next row of the details loop
    csvFile,      \* <out_name>.csv
    geoFile,      \* <out_name>.geojson
    status,       \* the "status" field of the last search response ("" before
                  \* the first response of a run); no line of the code reads it
    waited,       \* ms slept since the last request to any Google API
    gap,          \* the two most recent Places requests and the sleep between
    evals,        \* the tests the iteration of `for top in results` that
                  \* has just ended evaluated, in order, with their
                  \* outcomes (<<>> outside the loop)
    other,        \* a second process running main() with --skip_seen on the
                  \* same out_dir: where it is, the seen_ids it loaded, the
                  \* ids it exported, whether it ran while a run of the
                  \* first process was between its load and its save
    log,          \* history: the provider's answers to each run, in the order
                  \* the run received them (kept only when log.on)
    hist          \* one summary per run started so far, the current run last:
                  \* its args, the cache file's kind and identifiers when it
                  \* started (kind, before), what it loaded, the identifiers
                  \* in the file now (after), whether it saved the cache, the
                  \* place ids and the number of rows it wrote, its status

vars == <<pc, args, file, seen_ids, loc_bias, country_code, out, next_token,
          page_token, pending, pageNo, gridPos, typeIdx, rows_final,
          enrichPos, csvFile, geoFile, status, waited, gap, evals, other,
          log, hist>>

collector == <<out, next_token, page_token, pending, pageNo, gridPos, typeIdx>>

outputs == <<csvFile, geoFile>>

timing == <<waited, gap>>

\* the place ids of a list of rows that have one
PidsOf(rows) == {rows[i].place_id : i \in {j \in 1..Len(rows) : rows[j].place_id # ""}}

\* the status of a run summary: "running", "done", "aborted" (an exception
\* left main()), "load_failed" (the exception came out of load_seen)
\* hist with its last summary changed
Last(h) == h[Len(h)]

SetLast(h, e) == [h EXCEPT ![Len(h)] = e]

(***************************************************************************)
(* Inputs shared by every specification                                    *)
(***************************************************************************)
Japan == <<"h:il", "h:bon">>

AddrTokyo == <<"T", "o", "k", "y", "o">>

BaseArgs ==
    [ variant       |-> "full",
      mode          |-> "text",
      country       |-> Japan,
      area          |-> <<>>,
      query         |-> "q1",
      pages         |-> 2,
      grid_steps    |-> 1,
      include_types |-> <<"">>,
      exclude_types |-> <<"">>,
      min_rating    |-> 0,
      min_reviews   |-> 0,
      max_results   |-> 3,
      details       |-> FALSE,
      bf            |-> <<"h:mugwan">>,
      skip_seen     |-> FALSE,
      reset_seen    |-> FALSE,
      area_filter   |-> "none",
      sleep_ms      |-> 300 ]

BaseHit ==
    [ place_id           |-> "p1",
      name               |-> "n1",
      formatted_address  |-> AddrTokyo,
      vicinity           |-> <<>>,
      types              |-> <<"restaurant">>,
      rating             |-> Some(45),
      user_ratings_total |-> Some(200),
      lat                |-> Some(35),
      lng                |-> Some(139),
      business_status    |-> "OPERATIONAL",
      lookup             |-> [ok |-> TRUE, cc |-> Some("JP")] ]

NoFile == [kind |-> "missing", items |-> <<>>]

NoOutput == [exists |-> FALSE, rows |-> <<>>]

NoGeo == [exists |-> FALSE, features |-> <<>>]

\* answers of the geocoding request: it raises (HTTP error), it has no
\* results, or its first result has coordinates and maybe a country component
GeoError == [status |-> "error", cc |-> None]

GeoEmpty == [status |-> "empty", cc |-> None]

GeoOk(cc) == [status |-> "ok", cc |-> cc]

\* the second process before it starts
OtherIdle == [pc |-> "idle", seen |-> {}, exported |-> {}, saved |-> FALSE,
              overlap |-> FALSE]

\* answers of the details request of the enrichment loop
DetailOutcomes ==
    { [ok |-> FALSE, business_status |-> None],
      [ok |-> TRUE,  business_status |-> None],
      [ok |-> TRUE,  business_status |-> Some("OPERATIONAL")],
      [ok |-> TRUE,  business_status |-> Some("CLOSED_TEMPORARILY")] }

(***************************************************************************)
(* Init and the steps of main()                                            *)
(***************************************************************************)
InitLogging(F, l) ==
    /\ pc = "idle"
    /\ args = BaseArgs
    /\ file \in F
    /\ seen_ids = {}
    /\ loc_bias = None
    /\ country_code = None
    /\ out = <<>>
    /\ next_token = FALSE
    /\ page_token = FALSE
    /\ pending = 0
    /\ pageNo = 0
    /\ gridPos = 1
    /\ typeIdx = 1
    /\ rows_final = <<>>
    /\ enrichPos = 1
    /\ csvFile = NoOutput
    /\ geoFile = NoGeo
    /\ status = ""
    /\ waited = 0
    /\ gap = NoGap
    /\ evals = <<>>
    /\ other = OtherIdle
    /\ log = l
    /\ hist = <<>>

\* the state before the first run, with the cache file one of F
InitWith(F) == InitLogging(F, NoLog)

\* main() lines 459-498 (fast variant 162-186): parse the arguments, reset
\* and load the seen cache
StartRun(A, runs) ==
    /\ pc = "idle"
    /\ Len(hist) < runs
    /\ \E a \in A :
         LET full   == a.variant = "full"
             file1  == IF full THEN ResetSeen(file, a) ELSE file
             load   == IF full THEN LoadAtStart(file, a)
                       ELSE [exc |-> "none", value |-> {}]
             raised == load.exc # "none"
         IN  /\ args' = a
             /\ file' = file1
             /\ seen_ids' = load.value
             /\ pc' = IF raised THEN "aborted" ELSE "geocode"
             /\ hist' = Append(hist, [ args     |-> a,
                                       kind     |-> file.kind,
                                       before   |-> Persisted(file),
                                       loaded   |-> load.value,
                                       after    |-> Persisted(file1),
                                       saved    |-> FALSE,
                                       exported |-> {},
                                       written  |-> 0,
                                       status   |-> IF raised THEN "load_failed"
                                                    ELSE "running" ])
    /\ log' = LogRun(log)
    /\ evals' = <<>>
    /\ other' = IF other.pc = "running" THEN [other EXCEPT !.overlap = TRUE]
                ELSE other
    /\ UNCHANGED <<loc_bias, country_code, collector, rows_final, enrichPos,
                   outputs, status, timing>>

\* main() lines 500-540 (fast variant 188-202) up to the call of the
\* collector: geocode, country fallback, the centre a nearby mode needs
Geocode(G) ==
    /\ pc = "geocode"
    /\ \E g \in G :
         LET loc == IF g.status = "ok" THEN Some(<<35, 139>>) ELSE None
             cc  == IF args.variant = "full"
                    THEN TargetCountryCode(g.cc, args.country)
                    ELSE None
             dead == g.status = "error" \/ (args.mode = "nearby" /\ loc = None)
         IN  /\ loc_bias' = loc
             /\ country_code' = cc
             /\ pc' = IF dead THEN "aborted" ELSE "search"
             /\ hist' = IF dead
                        THEN SetLast(hist, [Last(hist) EXCEPT !.status = "aborted"])
                        ELSE hist
             /\ log' = LogAnswer(log, Answer("geocode", g))
    /\ waited' = 0
    /\ out' = <<>>
    /\ next_token' = FALSE
    /\ page_token' = FALSE
    /\ pending' = 0
    /\ pageNo' = 0
    /\ gridPos' = 1
    /\ typeIdx' = 1
    /\ evals' = <<>>
    /\ other' = other
    /\ UNCHANGED <<args, file, seen_ids, rows_final, enrichPos, outputs,
                   status, gap>>

\* the head of a pagination iteration and the request:
\* `if page_token: ...; time.sleep(2.0)`, js = text_search(params) /
\* nearby_search(params), results = js.get("results", []).  The request
\* raises (raise_for_status; nothing in main() catches it), or the response
\* has a status, n results and maybe a next_page_token.  ZERO_RESULTS is
\* taken as "OK" with no results; an INVALID_REQUEST response has no results
\* and no token.  A pagination gets at most MaxTokens responses with a token,
\* or, with endless, a token whenever the provider gives one; the while loop
\* of the nearby collectors counts nothing, so there pageNo stops counting at
\* MaxTokens + 1.
SearchRequestOf(endless) ==
    /\ pc = "search"
    /\ \E ok \in BOOLEAN, n \in 0..MaxPageLen, tok \in BOOLEAN,
          st \in {"OK", "INVALID_REQUEST"} :
         /\ (tok => (pageNo < MaxTokens \/ endless))
         /\ (~ok => n = 0 /\ ~tok /\ st = "OK")
         /\ (st = "INVALID_REQUEST" => n = 0 /\ ~tok)
         /\ pending' = n
         /\ next_token' = tok
         /\ status' = IF ok THEN st ELSE status
         /\ pc' = IF ok THEN "hits" ELSE "aborted"
         /\ hist' = IF ok THEN hist
                    ELSE SetLast(hist, [Last(hist) EXCEPT !.status = "aborted"])
         /\ log' = LogAnswer(log, Answer("search",
                        [ok |-> ok, n |-> n, tok |-> tok, st |-> st]))
    /\ pageNo' = IF args.mode = "nearby" THEN Min(pageNo + 1, MaxTokens + 1)
                 ELSE pageNo + 1
    /\ gap' = PlacesRequest(gap, "search", waited + SettleSleep(page_token))
    /\ waited' = 0
    /\ evals' = <<>>
    /\ other' = other
    /\ UNCHANGED <<args, file, seen_ids, loc_bias, country_code, out,
                   page_token, gridPos, typeIdx, rows_final, enrichPos, outputs>>

\* the request of a provider that ends every pagination within MaxTokens
\* tokens
SearchRequest == SearchRequestOf(FALSE)

\* one iteration of `for top in results`: the filters (with the country
\* lookup of the full variant), out.append, and the break / return when
\* len(out) >= max_results
ProcessHit(H) ==
    /\ pc = "hits"
    /\ pending > 0
    /\ \E top \in H :
         LET passed == Pass(top, args, seen_ids, country_code)
             out1   == IF passed THEN Append(out, Emit(top, args)) ELSE out
             full   == passed /\ Len(out1) >= Cap(args)
             lookup == ReachesLookup(top, args, seen_ids)
         IN  /\ out' = out1
             /\ pending' = IF full THEN 0 ELSE pending - 1
             /\ pc' = IF full THEN "dedupe" ELSE "hits"
             /\ gap' = IF lookup THEN PlacesRequest(gap, "lookup", waited) ELSE gap
             /\ waited' = IF lookup THEN 0 ELSE waited
             /\ evals' = Evaluated(Tests(top, args, seen_ids, country_code))
             /\ log' = LogAnswer(log, Answer("hit", top))
    /\ other' = other
    /\ UNCHANGED <<args, file, seen_ids, loc_bias, country_code, next_token,
                   page_token, pageNo, gridPos, typeIdx, rows_final, enrichPos,
                   outputs, status, hist>>

\* the end of one iteration of `for _ in range(max(1, pages))`
\* (collect_textsearch 234-240, text_search 86-88): the cap break, the token
\* of the response, the inter-call sleep when there is a token
TextPageEnd ==
    /\ pc = "hits"
    /\ pending = 0
    /\ args.mode = "text"
    /\ LET capped == args.variant = "full" /\ Len(out) >= args.max_results
           more   == ~capped /\ next_token /\ pageNo < Max(1, args.pages)
       IN  /\ page_token' = IF capped THEN page_token ELSE next_token
           /\ waited' = IF ~capped /\ next_token
                        THEN waited + InterCallSleep(args) ELSE waited
           /\ pc' = IF more THEN "search" ELSE "dedupe"
    /\ evals' = <<>>
    /\ other' = other
    /\ UNCHANGED <<args, file, seen_ids, loc_bias, country_code, out,
                   next_token, pending, pageNo, gridPos, typeIdx, rows_final,
                   enrichPos, outputs, status, gap, log, hist>>

\* the end of one iteration of `while True` (collect_nearby_grid 321-324,
\* nearby 123-125), and the step of the two enclosing for loops
NearbyPageEnd ==
    /\ pc = "hits"
    /\ pending = 0
    /\ args.mode = "nearby"
    /\ LET lastType  == typeIdx >= Len(IncludeList(args))
           lastPoint == gridPos >= Len(make_grid(args.grid_steps))
       IN  IF next_token
           THEN /\ page_token' = TRUE
                /\ waited' = waited + InterCallSleep(args)
                /\ pc' = "search"
                /\ UNCHANGED <<pageNo, gridPos, typeIdx>>
           ELSE /\ page_token' = FALSE
                /\ waited' = waited
                /\ pageNo' = 0
                /\ typeIdx' = IF lastType THEN 1 ELSE typeIdx + 1
                /\ gridPos' = IF lastType THEN gridPos + 1 ELSE gridPos
                /\ pc' = IF lastType /\ lastPoint THEN "dedupe" ELSE "search"
    /\ evals' = <<>>
    /\ other' = other
    /\ UNCHANGED <<args, file, seen_ids, loc_bias, country_code, out,
                   next_token, pending, rows_final, enrichPos, outputs,
                   status, gap, log, hist>>

\* main() 542-556 (fast variant 204-212)
DedupeRows ==
    /\ pc = "dedupe"
    /\ rows_final' = Dedupe(out, args)
    /\ enrichPos' = 1
    /\ pc' = IF args.details /\ rows_final' # <<>> THEN "enrich" ELSE "final"
    /\ evals' = <<>>
    /\ other' = other
    /\ UNCHANGED <<args, file, seen_ids, loc_bias, country_code, collector,
                   outputs, status, timing, log, hist>>

\* EnrichStep without the try / except: a details request that raises (the
\* row is left as it was) ends the run
EnrichStep_Raise ==
    /\ pc = "enrich"
    /\ \E d \in DetailOutcomes :
         LET asked  == rows_final[enrichPos].place_id # ""
             raised == asked /\ ~d.ok
         IN  /\ rows_final' = [rows_final EXCEPT
                          ![enrichPos] = EnrichRow(rows_final[enrichPos], d, args)]
             /\ log' = IF asked THEN LogAnswer(log, Answer("details", d)) ELSE log
             /\ gap' = IF asked THEN PlacesRequest(gap, "details", waited) ELSE gap
             /\ waited' = IF asked /\ ~raised THEN InterCallSleep(args) ELSE waited
             /\ pc' = IF raised THEN "aborted"
                      ELSE IF enrichPos >= Len(rows_final) THEN "final" ELSE "enrich"
             /\ hist' = IF raised
                        THEN SetLast(hist, [Last(hist) EXCEPT !.status = "aborted"])
                        ELSE hist
    /\ enrichPos' = enrichPos + 1
    /\ evals' = <<>>
    /\ other' = other
    /\ UNCHANGED <<args, file, seen_ids, loc_bias, country_code, collector,
                   outputs, status>>

\* one iteration of `for r in rows` of enrich_with_details / details_enrich:
\* a row without place_id is passed over; else the details request, the
\* columns it fills, and the inter-call sleep
EnrichStep ==
    /\ pc = "enrich"
    /\ \E d \in DetailOutcomes :
         LET asked == rows_final[enrichPos].place_id # ""
         IN  /\ rows_final' = [rows_final EXCEPT
                          ![enrichPos] = EnrichRow(rows_final[enrichPos], d, args)]
             /\ log' = IF asked THEN LogAnswer(log, Answer("details", d)) ELSE log
             /\ gap' = IF asked THEN PlacesRequest(gap, "details", waited) ELSE gap
             /\ waited' = IF asked THEN InterCallSleep(args) ELSE waited
    /\ enrichPos' = enrichPos + 1
    /\ pc' = IF enrichPos >= Len(rows_final) THEN "final" ELSE "enrich"
    /\ evals' = <<>>
    /\ other' = other
    /\ UNCHANGED <<args, file, seen_ids, loc_bias, country_code, collector,
                   outputs, status, hist>>

\* Finalize with the CSV file opened in mode "a": the rows are added to the
\* lines the file has
Finalize_Append ==
    /\ pc = "final"
    /\ LET full   == args.variant = "full"
           rf     == IF full THEN BusinessFilter(rows_final, args.bf) ELSE rows_final
           saving == full /\ args.skip_seen /\ rf # <<>>
           seen1  == IF saving THEN SeenUpdate(seen_ids, rf) ELSE seen_ids
           file1  == IF saving THEN save_seen(file, seen1) ELSE file
       IN  /\ rows_final' = rf
           /\ seen_ids' = seen1
           /\ file' = file1
           /\ csvFile' = IF rf # <<>>
                         THEN [exists |-> TRUE, rows |-> csvFile.rows \o rf]
                         ELSE csvFile
           /\ geoFile' = IF rf # <<>> THEN write_geojson(rf) ELSE geoFile
           /\ hist' = SetLast(hist, [Last(hist) EXCEPT
                                       !.after = Persisted(file1),
                                       !.saved = saving,
                                       !.exported = PidsOf(rf),
                                       !.written = Len(rf),
                                       !.status = "done"])
    /\ pc' = "done"
    /\ evals' = <<>>
    /\ other' = other
    /\ UNCHANGED <<args, loc_bias, country_code, collector, enrichPos,
                   status, timing, log>>

\* main() 565-585 (fast variant 217-221): final business-status filter, seen
\* cache update, the two output files
Finalize ==
    /\ pc = "final"
    /\ LET full   == args.variant = "full"
           rf     == IF full THEN BusinessFilter(rows_final, args.bf) ELSE rows_final
           saving == full /\ args.skip_seen /\ rf # <<>>
           seen1  == IF saving THEN SeenUpdate(seen_ids, rf) ELSE seen_ids
           file1  == IF saving THEN save_seen(file, seen1) ELSE file
       IN  /\ rows_final' = rf
           /\ seen_ids' = seen1
           /\ file' = file1
           /\ csvFile' = IF rf # <<>> THEN write_csv(rf) ELSE csvFile
           /\ geoFile' = IF rf # <<>> THEN write_geojson(rf) ELSE geoFile
           /\ hist' = SetLast(hist, [Last(hist) EXCEPT
                                       !.after = Persisted(file1),
                                       !.saved = saving,
                                       !.exported = PidsOf(rf),
                                       !.written = Len(rf),
                                       !.status = "done"])
    /\ pc' = "done"
    /\ evals' = <<>>
    /\ other' = other
    /\ UNCHANGED <<args, loc_bias, country_code, collector, enrichPos,
                   status, timing, log>>

\* the process exits; the files stay
EndRun ==
    /\ pc \in {"done", "aborted"}
    /\ pc' = "idle"
    /\ seen_ids' = {}
    /\ loc_bias' = None
    /\ country_code' = None
    /\ out' = <<>>
    /\ next_token' = FALSE
    /\ page_token' = FALSE
    /\ pending' = 0
    /\ pageNo' = 0
    /\ gridPos' = 1
    /\ typeIdx' = 1
    /\ rows_final' = <<>>
    /\ enrichPos' = 1
    /\ status' = ""
    /\ waited' = 0
    /\ gap' = NoGap
    /\ evals' = <<>>
    /\ other' = other
    /\ UNCHANGED <<args, file, outputs, log, hist>>

\* The second process.  It runs main() of the full variant with --skip_seen
\* and an --out_name of its own on the out_dir of the first, so the seen
\* cache file is all the two share.
OtherArgs == [BaseArgs EXCEPT !.query = "q2", !.skip_seen = TRUE, !.pages = 1]

\* the first process is between the load and the save of a run
MidRun == pc \in {"geocode", "search", "hits", "dedupe", "enrich", "final"}

\* main() 491-498 in the second process: reset and load of the seen cache
OtherStart ==
    /\ other.pc = "idle"
    /\ file' = ResetSeen(file, OtherArgs)
    /\ other' = [ pc       |-> "running",
                  seen     |-> LoadAtStart(file, OtherArgs).value,
                  exported |-> {},
                  saved    |-> FALSE,
                  overlap  |-> MidRun ]
    /\ UNCHANGED <<pc, args, seen_ids, loc_bias, country_code, collector,
                   rows_final, enrichPos, outputs, status, timing, evals, log,
                   hist>>

\* main() 500-576 in the second process: its collection and dedupe, which
\* read and write nothing of the first process, taken as one step with
\* the update and save of the seen cache; the search answers with one hit
OtherFinalize(H) ==
    /\ other.pc = "running"
    /\ \E top \in H :
         LET passed == Pass(top, OtherArgs, other.seen,
                            TargetCountryCode(Some("JP"), OtherArgs.country))
             rf     == BusinessFilter(IF passed THEN <<Emit(top, OtherArgs)>>
                                      ELSE <<>>, OtherArgs.bf)
             saving == OtherArgs.skip_seen /\ rf # <<>>
             seen1  == IF saving THEN SeenUpdate(other.seen, rf) ELSE other.seen
         IN  /\ file' = IF saving THEN save_seen(file, seen1) ELSE file
             /\ other' = [other EXCEPT !.pc = "done", !.seen = seen1,
                                       !.exported = PidsOf(rf), !.saved = saving]
    /\ UNCHANGED <<pc, args, seen_ids, loc_bias, country_code, collector,
                   rows_final, enrichPos, outputs, status, timing, evals, log,
                   hist>>

\* the next-state relation over the inputs A (command lines), H (hits),
\* G (geocoding answers), for at most `runs` runs
Step(A, H, G, runs) ==
    \/ StartRun(A, runs)
    \/ Geocode(G)
    \/ SearchRequest
    \/ ProcessHit(H)
    \/ TextPageEnd
    \/ NearbyPageEnd
    \/ DedupeRows
    \/ EnrichStep
    \/ Finalize
    \/ EndRun

(***************************************************************************)
(* Specifications.  Every specification runs the same steps; they differ   *)
(* in the command lines, hits and geocoding answers the steps draw from.   *)
(***************************************************************************)
Variants == {"full", "fast"}

Modes == {"text", "nearby"}

\* a run of each collector with details, so that every step is taken
\* whatever else a specification varies
CoverArgs ==
    { [BaseArgs EXCEPT !.variant = v, !.mode = m, !.details = TRUE,
                       !.max_results = 1] : v \in Variants, m \in Modes }

\* --- dedupe: hits that share place ids and name@address composites
ArgsDedupe ==
    { [BaseArgs EXCEPT !.variant = v, !.mode = m] : v \in Variants, m \in Modes }
        \cup CoverArgs

HitsDedupe ==
    { [BaseHit EXCEPT !.place_id = p, !.name = n, !.user_ratings_total = r] :
        p \in {"", "p1"}, n \in {"n1", "n2"},
        r \in {None, Some(50), Some(80)} }

SpecDedupe ==
    InitWith({NoFile})
        /\ [][Step(ArgsDedupe, HitsDedupe, {GeoOk(Some("JP")), GeoEmpty}, 1)]_vars

\* --- area filter: areas with and without an AREA_ALIAS entry
\* "Tokyo" and "Paris" in Hangul; only the first is a key of AREA_ALIAS
AreaTokyo == <<"h:do", "h:kyo">>

AreaParis == <<"h:pa", "h:ri">>

AreaTokyoShibuya == <<"h:do", "h:kyo", " ", "h:si", "h:bu", "h:ya">>

AddrShibuya == <<"S", "H", "I", "B", "U", "Y", "A">>

AddrBerlin == <<"B", "e", "r", "l", "i", "n">>

AddrParis == <<"h:pa", "h:ri", " ", "1">>

\* the fast variant has --area_filter; the full variant has no such option
ArgsArea ==
    { [BaseArgs EXCEPT !.mode = m, !.area = ar, !.max_results = 2] :
        m \in Modes, ar \in {<<>>, AreaTokyo, AreaParis, AreaTokyoShibuya} }
    \cup
    { [BaseArgs EXCEPT !.variant = "fast", !.mode = m, !.area = ar,
                       !.area_filter = f, !.max_results = 2] :
        m \in Modes, ar \in {AreaTokyo, AreaParis}, f \in {"loose", "none"} }
    \cup CoverArgs

HitsArea ==
    { [BaseHit EXCEPT !.formatted_address = fa, !.vicinity = vi] :
        fa \in {AddrTokyo, AddrShibuya, AddrBerlin, AddrParis},
        vi \in {<<>>, AddrBerlin} }

SpecArea ==
    InitWith({NoFile})
        /\ [][Step(ArgsArea, HitsArea, {GeoOk(Some("JP"))}, 1)]_vars

\* --- quality filter: ratings and review counts around the minimums
Operational == <<"OPERATIONAL", "h:yeongeopjung)">>

ArgsQuality ==
    { [BaseArgs EXCEPT !.variant = v, !.mode = m, !.min_rating = mr,
                       !.min_reviews = mv, !.details = d, !.max_results = 2] :
        v \in Variants, m \in Modes, mr \in {0, 42}, mv \in {0, 100},
        d \in BOOLEAN }
    \cup { [BaseArgs EXCEPT !.min_rating = 42, !.min_reviews = 100,
                            !.details = TRUE, !.bf = Operational,
                            !.max_results = 2] }

HitsQuality ==
    { [BaseHit EXCEPT !.rating = ra, !.user_ratings_total = n] :
        ra \in {None, Some(35), Some(42), Some(45)},
        n \in {None, Some(50), Some(100)} }

SpecQuality ==
    InitWith({NoFile})
        /\ [][Step(ArgsQuality, HitsQuality, {GeoOk(Some("JP"))}, 1)]_vars

\* --- category filter: include and exclude sets against the hits' types
\* (the fast variant has no --exclude_types)
ArgsCategory ==
    { [BaseArgs EXCEPT !.mode = m, !.include_types = inc, !.exclude_types = exc,
                       !.max_results = 2] :
        m \in Modes, inc \in {<<"">>, <<"cafe">>, <<"cafe", "bar">>},
        exc \in {<<"">>, <<"bar">>} }
    \cup
    { [BaseArgs EXCEPT !.variant = "fast", !.mode = m, !.include_types = inc,
                       !.max_results = 2] :
        m \in Modes, inc \in {<<"">>, <<"cafe">>} }
    \cup CoverArgs

HitsCategory ==
    { [BaseHit EXCEPT !.types = t] :
        t \in {<<>>, <<"cafe">>, <<"bar">>, <<"cafe", "bar">>, <<"restaurant">>} }

SpecCategory ==
    InitWith({NoFile})
        /\ [][Step(ArgsCategory, HitsCategory, {GeoOk(Some("JP"))}, 1)]_vars

\* --- country filter: geocoding with and without a country component,
\* a country of the fallback lexicon and one outside it ("Hanguk")
Korea == <<"h:han", "h:guk">>

ArgsCountry ==
    { [BaseArgs EXCEPT !.mode = m, !.country = c, !.max_results = 2] :
        m \in Modes, c \in {Japan, Korea} }
    \cup CoverArgs

HitsCountry ==
    { [BaseHit EXCEPT !.place_id = p, !.lookup = l] :
        p \in {"p1", "p2"},
        l \in { [ok |-> FALSE, cc |-> None], [ok |-> TRUE, cc |-> None],
                [ok |-> TRUE, cc |-> Some("JP")], [ok |-> TRUE, cc |-> Some("KR")] } }

GeoCountry == {GeoError, GeoEmpty, GeoOk(None), GeoOk(Some("JP")), GeoOk(Some("KR"))}

SpecCountry ==
    InitWith({NoFile}) /\ [][Step(ArgsCountry, HitsCountry, GeoCountry, 1)]_vars

\* --- seen cache: several runs against one out_dir, with every kind of
\* cache file to start from
FilesCache ==
    { NoFile,
      [kind |-> "undecodable", items |-> <<>>],
      [kind |-> "badjson", items |-> <<>>],
      [kind |-> "scalar", items |-> <<>>],
      [kind |-> "list", items |-> <<>>],
      [kind |-> "list", items |-> <<"p1">>],
      [kind |-> "list", items |-> <<"p2", "p1", "p2">>] }

ArgsCache ==
    { [BaseArgs EXCEPT !.query = q, !.skip_seen = sk, !.reset_seen = rs,
                       !.pages = 1, !.max_results = 2] :
        q \in {"q1", "q2"}, sk \in BOOLEAN, rs \in BOOLEAN }
    \cup
    { [BaseArgs EXCEPT !.mode = "nearby", !.skip_seen = TRUE, !.details = TRUE,
                       !.max_results = 1],
      [BaseArgs EXCEPT !.variant = "fast", !.pages = 1, !.max_results = 1] }

HitsCache == { [BaseHit EXCEPT !.place_id = p] : p \in {"p1", "p2"} }

SpecCache ==
    InitWith(FilesCache)
        /\ [][Step(ArgsCache, HitsCache, {GeoOk(Some("JP"))}, MaxRuns)]_vars

\* --- geocoding: every answer of the geocoding request, with and without
\* an area
ArgsGeo ==
    { [BaseArgs EXCEPT !.variant = v, !.mode = m, !.area = ar, !.pages = 1,
                       !.max_results = 2] :
        v \in Variants, m \in Modes, ar \in {<<>>, AreaTokyo} }
    \cup CoverArgs

HitsGeo ==
    { [BaseHit EXCEPT !.place_id = p, !.formatted_address = fa] :
        p \in {"p1", "p2"}, fa \in {AddrTokyo, AddrBerlin} }

GeoAnswers == {GeoError, GeoEmpty, GeoOk(None), GeoOk(Some("JP"))}

SpecGeo ==
    InitWith({NoFile}) /\ [][Step(ArgsGeo, HitsGeo, GeoAnswers, 1)]_vars

\* --- export: hits with and without coordinates, 0 among them
ArgsExport ==
    { [BaseArgs EXCEPT !.variant = v, !.mode = m, !.pages = 1,
                       !.max_results = 2] : v \in Variants, m \in Modes }
    \cup CoverArgs

HitsExport ==
    { [BaseHit EXCEPT !.place_id = p, !.lat = la, !.lng = ln] :
        p \in {"p1", "p2"}, la \in {None, Some(0), Some(35)},
        ln \in {None, Some(0), Some(139)} }

SpecExport ==
    InitWith({NoFile})
        /\ [][Step(ArgsExport, HitsExport, {GeoOk(Some("JP"))}, 1)]_vars

\* --- cap: more hits than max_results, and a fast run over a 7x7 grid that
\* is asked for 500 places and offered up to 196, each with a place id of
\* its own
ArgsCap ==
    { [BaseArgs EXCEPT !.mode = m, !.max_results = n] :
        m \in Modes, n \in {1, 2} }
    \cup
    { [BaseArgs EXCEPT !.variant = "fast", !.max_results = n] : n \in {0, 2} }
    \cup
    { [BaseArgs EXCEPT !.variant = "fast", !.mode = "nearby", !.grid_steps = 3,
                       !.max_results = 500] }
    \cup CoverArgs

HitsCap ==
    IF args.max_results > HardCap
    THEN { [BaseHit EXCEPT !.place_id = ToString(Len(out) + 1)] }
    ELSE { [BaseHit EXCEPT !.place_id = p] : p \in {"p1", "p2"} }

SpecCap ==
    InitWith({NoFile})
        /\ [][Step(ArgsCap, HitsCap, {GeoOk(Some("JP"))}, 1)]_vars

\* --- grid: nearby runs for --grid_steps from -1 to 3
ArgsGrid ==
    { [BaseArgs EXCEPT !.variant = v, !.mode = "nearby", !.grid_steps = n,
                       !.max_results = 1] :
        v \in Variants, n \in {-1, 0, 1, 2, 3} }
    \cup CoverArgs

SpecGrid ==
    InitWith({NoFile})
        /\ [][Step(ArgsGrid, {BaseHit}, {GeoOk(Some("JP"))}, 1)]_vars

\* --- repeated runs: every run after the first has the command line of the
\* first and gets the answers the first got, as far as those go.  To keep
\* the logs few, the nearby responses of this specification have status OK
\* and no next_page_token.
\* two lists of answers agree wherever both have an answer of the same kind
SameAnswers(l1, l2) ==
    \A k \in 1..Min(Len(l1), Len(l2)) :
        l1[k].kind = l2[k].kind => l1[k].val = l2[k].val

SameProvider ==
    /\ \A i, j \in 1..Len(log.runs) : SameAnswers(log.runs[i], log.runs[j])
    /\ args.mode = "nearby" => (~next_token /\ status # "INVALID_REQUEST")

ArgsIdem ==
    { [BaseArgs EXCEPT !.skip_seen = sk, !.pages = 1, !.max_results = 2] :
        sk \in BOOLEAN }
    \cup
    { [BaseArgs EXCEPT !.skip_seen = sk, !.details = TRUE, !.bf = Operational,
                       !.pages = 1, !.max_results = 2] : sk \in BOOLEAN }
    \cup { [BaseArgs EXCEPT !.variant = "fast", !.pages = 1, !.max_results = 2] }
    \cup CoverArgs

ArgsIdemNow == IF hist = <<>> THEN ArgsIdem ELSE {hist[1].args}

HitsIdem == { [BaseHit EXCEPT !.place_id = p] : p \in {"p1", "p2"} }

SpecIdem ==
    InitLogging({NoFile}, EmptyLog)
        /\ [][Step(ArgsIdemNow, HitsIdem, {GeoOk(Some("JP")), GeoEmpty}, MaxRuns)
                /\ SameProvider']_vars

\* --- pagination and pacing: two pages, hits that pass and hits that fail
\* the quality test, with and without details
ArgsPaging ==
    { [BaseArgs EXCEPT !.variant = v, !.mode = m, !.min_rating = 42,
                       !.details = d] :
        v \in Variants, m \in Modes, d \in BOOLEAN }
    \cup CoverArgs

HitsPaging ==
    { [BaseHit EXCEPT !.place_id = p, !.rating = r] :
        p \in {"p1", "p2"}, r \in {Some(35), Some(45)} }

SpecPaging ==
    InitWith({NoFile})
        /\ [][Step(ArgsPaging, HitsPaging, {GeoOk(Some("JP"))}, 1)]_vars

\* --- filter order: hits that fail each test of the collectors, a cache
\* file that holds p1
ArgsOrder ==
    { [BaseArgs EXCEPT !.variant = v, !.mode = m, !.area = AreaTokyo,
                       !.include_types = <<"cafe">>, !.exclude_types = <<"bar">>,
                       !.min_rating = 42, !.skip_seen = TRUE,
                       !.area_filter = "loose", !.pages = 1,
                       !.max_results = 2] :
        v \in Variants, m \in Modes }
    \cup CoverArgs

\* a hit that passes every test, hits that fail one test each, and one that
\* fails the area, quality and country tests
HitOrderPass ==
    [BaseHit EXCEPT !.place_id = "p2", !.types = <<"cafe">>]

HitsOrder ==
    { HitOrderPass,
      [HitOrderPass EXCEPT !.place_id = "p1"],
      [HitOrderPass EXCEPT !.formatted_address = AddrBerlin],
      [HitOrderPass EXCEPT !.types = <<"restaurant">>],
      [HitOrderPass EXCEPT !.types = <<"cafe", "bar">>],
      [HitOrderPass EXCEPT !.rating = Some(35)],
      [HitOrderPass EXCEPT !.lookup = [ok |-> TRUE, cc |-> Some("KR")]],
      [HitOrderPass EXCEPT !.formatted_address = AddrBerlin, !.rating = Some(35),
                           !.lookup = [ok |-> TRUE, cc |-> Some("KR")]] }

SpecOrder ==
    InitWith({[kind |-> "list", items |-> <<"p1">>]})
        /\ [][Step(ArgsOrder, HitsOrder, {GeoOk(Some("JP"))}, 1)]_vars

\* --- two processes on one out_dir: runs of the first process with the seen
\* cache enabled, with and without reset, and one run of the second process
\* that starts and ends at any time
ArgsShared ==
    { [BaseArgs EXCEPT !.skip_seen = TRUE, !.reset_seen = rs, !.pages = 1,
                       !.max_results = 2] : rs \in BOOLEAN }
    \cup
    { [BaseArgs EXCEPT !.mode = "nearby", !.skip_seen = TRUE, !.details = TRUE,
                       !.max_results = 1] }

HitsShared == { [BaseHit EXCEPT !.place_id = p] : p \in {"p1", "p2"} }

StepShared ==
    \/ Step(ArgsShared, HitsShared, {GeoOk(Some("JP"))}, MaxRuns)
    \/ OtherStart
    \/ OtherFinalize(HitsShared)

SpecShared == InitWith({NoFile}) /\ [][StepShared]_vars

\* --- termination: a provider that may put a next_page_token in every
\* response, hits that fail the quality test, text runs of 0, 1 and 3 pages
ArgsEndless ==
    { [BaseArgs EXCEPT !.variant = v, !.pages = n, !.min_rating = 42,
                       !.max_results = 2] : v \in Variants, n \in {0, 1, 3} }
    \cup
    { [BaseArgs EXCEPT !.variant = v, !.mode = "nearby", !.min_rating = 42,
                       !.max_results = 2] : v \in Variants }
    \cup CoverArgs

HitsEndless == { [BaseHit EXCEPT !.rating = r] : r \in {Some(35), Some(45)} }

StepEndless ==
    \/ Step(ArgsEndless, HitsEndless, {GeoOk(Some("JP"))}, 1)
    \/ SearchRequestOf(TRUE)

\* main() is one sequential process: as long as it has a step to take it
\* takes one
SpecEndless ==
    InitWith({NoFile}) /\ [][StepEndless]_vars /\ WF_vars(StepEndless)

\* the same runs against a provider that ends every pagination
SpecEnding ==
    InitWith({NoFile})
        /\ [][Step(ArgsEndless, HitsEndless, {GeoOk(Some("JP"))}, 1)]_vars
        /\ WF_vars(Step(ArgsEndless, HitsEndless, {GeoOk(Some("JP"))}, 1))

(***************************************************************************)
(* Claims                                                                  *)
(***************************************************************************)
\* the identity key of an exported record: its place_id or, when place_id is
\* empty, the composite resolved_name@formatted_address
IdentityKey(r) ==
    IF r.place_id # "" THEN <<"id", r.place_id, <<>>>>
    ELSE <<"composite", r.name, r.formatted_address>>

\* C1: the record set exported by a run (the rows written to the CSV file)
\* holds no two records with the same identity key.
C1_UniqueIdentityKeys ==
    \A i, j \in 1..Len(csvFile.rows) :
        i # j => IdentityKey(csvFile.rows[i]) # IdentityKey(csvFile.rows[j])

\* C1 witness: a run collected two records with the same key and exported.
C1_Witness ==
    /\ pc = "done"
    /\ csvFile.rows = rows_final
    /\ Len(rows_final) >= 2
    /\ \E i, j \in 1..Len(out) : i # j /\ IdentityKey(out[i]) = IdentityKey(out[j])

\* the first record of rows with key k whose review count is the largest
\* among the records of rows with key k
FirstMaxOf(rows, k) ==
    LET idx  == {i \in 1..Len(rows) : IdentityKey(rows[i]) = k}
        best == {i \in idx : \A j \in idx :
                    rows[i].user_ratings_total >= rows[j].user_ratings_total}
    IN  rows[CHOOSE i \in best : \A j \in best : i <= j]

\* C2: right after the dedup step, every record kept under an identity key
\* that several collected records share is the first collected record with
\* the maximum review count among them.
C2_KeepsFirstMaxReviews ==
    (pc \in {"enrich", "final"} /\ enrichPos = 1) =>
        \A i \in 1..Len(rows_final) :
            LET k == IdentityKey(rows_final[i])
            IN  Cardinality({j \in 1..Len(out) : IdentityKey(out[j]) = k}) >= 2
                    => rows_final[i] = FirstMaxOf(out, k)

\* the address holds, case-insensitively, a token of the area or the alias
\* the lexicon gives for a token (a token without entry has no alias)
AreaMatches(fmt, area) ==
    \E i \in 1..Len(Tokens(area)) :
        LET tok == Tokens(area)[i]
        IN  \/ Contains(Lower(tok), Lower(fmt))
            \/ /\ \E k \in 1..Len(AliasKeys) : AliasKeys[k] = tok
               /\ Contains(Lower(AREA_ALIAS_get(tok)), Lower(fmt))

\* the area filter is on: always in the full variant, with
\* --area_filter loose in the fast one
AreaFilterOn(a) == a.variant = "full" \/ a.area_filter = "loose"

\* C3: with a non-empty area and the area filter on, the address of every
\* record a collector emits (vicinity in nearby mode) holds a token of the
\* area or that token's alias.
C3_EmittedAddressMatchesArea ==
    (pc \in {"hits", "dedupe"} /\ args.area # <<>> /\ AreaFilterOn(args)) =>
        \A i \in 1..Len(out) : AreaMatches(out[i].formatted_address, args.area)

\* C3 restricted to areas whose every token is a key of AREA_ALIAS
C3_AliasedAreas ==
    (\A i \in 1..Len(Tokens(args.area)) :
        \E k \in 1..Len(AliasKeys) : AliasKeys[k] = Tokens(args.area)[i])
      => C3_EmittedAddressMatchesArea

\* the rows this run wrote to the CSV file
Exported == IF pc = "done" /\ Last(hist).written > 0 THEN csvFile.rows ELSE <<>>

\* C4: every exported record has rating >= min_rating and review count >=
\* min_reviews (an absent rating or count is exported as 0, so only with a
\* minimum of 0), in both modes, with and without details enrichment.
C4_ExportedMeetQuality ==
    /\ \A i \in 1..Len(Exported) :
          /\ Exported[i].rating >= args.min_rating
          /\ Exported[i].user_ratings_total >= args.min_reviews
    /\ (pc \in {"enrich", "final"}) =>
          \A i \in 1..Len(rows_final) :
              /\ rows_final[i].rating >= args.min_rating
              /\ rows_final[i].user_ratings_total >= args.min_reviews

\* C4 witness: a run with both minimums set and details on exported an
\* enriched record.
C4_Witness ==
    /\ args.min_rating > 0 /\ args.min_reviews > 0 /\ args.details
    /\ \E i \in 1..Len(Exported) : Exported[i].enriched

\* C4 witness of the absent case: a hit without rating and review count was
\* exported as 0 / 0 by a run whose minimums are 0.
C4_WitnessAbsent ==
    \E i \in 1..Len(Exported) :
        Exported[i].rating = 0 /\ Exported[i].user_ratings_total = 0

\* C5: every exported record's own types intersect the include set when one
\* is configured and miss the exclude set when one is configured.
C5_ExportedMatchCategories ==
    \A i \in 1..Len(Exported) :
        LET tset == Range(Exported[i].types)
            inc  == Range(args.include_types) \ {""}
            exc  == Range(args.exclude_types) \ {""}
        IN  /\ inc # {} => tset \cap inc # {}
            /\ exc # {} => tset \cap exc = {}

\* C5 restricted to text mode
C5_TextMode == args.mode = "text" => C5_ExportedMatchCategories

\* C6: in the full variant every emitted record carries the country code its
\* lookup yielded, and that code is the run's target country code.
C6_EmittedCountryIsTarget ==
    (args.variant = "full" /\ pc \in {"hits", "dedupe"}) =>
        \A i \in 1..Len(out) :
            /\ out[i].resolved_country_code # ""
            /\ country_code = Some(out[i].resolved_country_code)

\* C6 restricted to runs that have a target country code
C6_WithTarget == Truthy(country_code) => C6_EmittedCountryIsTarget

\* run i of hist used the seen cache and did not reset it
CacheRun(i) ==
    /\ hist[i].args.variant = "full"
    /\ hist[i].args.skip_seen
    /\ ~hist[i].args.reset_seen

\* the search parameters a cache key would be derived from
SearchTuple(a) == <<a.country, a.area, a.query>>

\* C7: over runs that all use the seen cache without reset, no place id is
\* exported by two runs, and no collected record has a place id that was in
\* the seen set loaded at run start.
C7_NeverExportedAgain ==
    /\ \A i, j \in 1..Len(hist) :
          (i < j /\ \A k \in i..j : CacheRun(k))
              => hist[i].exported \cap hist[j].exported = {}
    /\ (pc \in {"hits", "dedupe"} /\ args.variant = "full" /\ args.skip_seen)
          => \A i \in 1..Len(out) : out[i].place_id \notin Last(hist).loaded

\* C7 witness: the second of two cache runs loaded what the first exported
\* and exported another place.
C7_Witness ==
    /\ Len(hist) >= 2 /\ pc = "done"
    /\ CacheRun(Len(hist) - 1) /\ CacheRun(Len(hist))
    /\ hist[Len(hist) - 1].exported # {}
    /\ hist[Len(hist) - 1].exported \subseteq Last(hist).loaded
    /\ Last(hist).exported # {}

\* C8: for every run that saved the cache, the identifiers in the cache file
\* after the run are a superset of those in it before the run started.
C8_CacheNeverShrinks ==
    \A i \in 1..Len(hist) :
        hist[i].saved => hist[i].before \subseteq hist[i].after

\* C8 restricted to runs without --reset_seen, saving or not
C8_WithoutReset ==
    \A i \in 1..Len(hist) :
        ~hist[i].args.reset_seen => hist[i].before \subseteq hist[i].after

\* C9: a run does not load identifiers that were exported only by earlier
\* runs with other search parameters (identifiers already in the file before
\* the first run belong to no run).
C9_CacheKeyedByParameters ==
    \A i, j \in 1..Len(hist) :
        (i < j /\ SearchTuple(hist[i].args) # SearchTuple(hist[j].args))
          => (hist[i].exported \cap hist[j].loaded) \subseteq
                (hist[1].before \cup
                 UNION {hist[k].exported : k \in {n \in 1..(j - 1) :
                            SearchTuple(hist[n].args) = SearchTuple(hist[j].args)}})

\* the kinds of cache file that are missing, unreadable or no collection of
\* identifiers
BadKinds == {"missing", "undecodable", "badjson", "scalar"}

\* C10: a run that uses the cache and finds the file missing, unreadable or
\* not a collection of identifiers is not ended by load_seen, loads the empty
\* set and collects with the empty seen set.
C10_LoadNeverFails ==
    \A i \in 1..Len(hist) :
        (hist[i].args.variant = "full" /\ hist[i].args.skip_seen
            /\ hist[i].kind \in BadKinds)
          => /\ hist[i].status # "load_failed"
             /\ hist[i].loaded = {}
             /\ (i = Len(hist) /\ pc \in {"geocode", "search", "hits", "dedupe"})
                    => seen_ids = {}

\* C10 witness: a run that found an unparseable cache file exported a place
\* and saved the cache.
C10_Witness ==
    /\ pc = "done"
    /\ Last(hist).kind \in BadKinds \ {"missing"}
    /\ Last(hist).args.skip_seen /\ ~Last(hist).args.reset_seen
    /\ Last(hist).exported # {}
    /\ Last(hist).saved

\* the current run has an area and its geocoding step gave no coordinates
AreaNotGeocoded ==
    /\ pc \notin {"idle", "geocode"}
    /\ Last(hist).status # "load_failed"
    /\ args.area # <<>>
    /\ loc_bias = None

\* C11: a run with an area whose geocoding gave no result is aborted and has
\* sent no search request.
C11_AbortsWithoutLocation ==
    AreaNotGeocoded => (pc = "aborted" /\ gap.last = "none")

\* C11 restricted to the nearby modes, which raise without a centre
C11_NearbyMode ==
    (AreaNotGeocoded /\ args.mode = "nearby")
        => (pc = "aborted" /\ gap.last = "none")

\* C12: a run that ends with records has written them to the CSV file and
\* has written the GeoJSON file from them; the two files change only in the
\* final step of a run that has at least one record left.
C12_WritesIffRecords ==
    /\ [](pc = "done" /\ rows_final # <<>>
            => /\ csvFile = [exists |-> TRUE, rows |-> rows_final]
               /\ geoFile.exists
               /\ \A k \in 1..Len(geoFile.features) :
                     geoFile.features[k].properties \in Range(rows_final))
    /\ [][(csvFile' # csvFile \/ geoFile' # geoFile)
            => (pc = "final" /\ rows_final' # <<>>)]_vars

\* C12 witness: a second run ended with no record and the files of the
\* first run are still there.
C12_Witness ==
    /\ Len(hist) = 2 /\ pc = "done"
    /\ Last(hist).written = 0
    /\ hist[1].written > 0
    /\ csvFile.exists /\ Len(csvFile.rows) = hist[1].written
    /\ geoFile.exists

\* the rows that have both coordinates, in row order
WithCoordinates(rows) ==
    SelectSeq(rows, LAMBDA r : r.lat # None /\ r.lng # None)

\* C13: the GeoJSON file of a run has one Point Feature for each written row
\* that has both lat and lng (0 included), in row order and with coordinates
\* [lng, lat] of that row; every row, with or without coordinates, is a line
\* of the CSV file.
C13_FeaturePerLocatedRecord ==
    (pc = "done" /\ rows_final # <<>>)
      => LET located == WithCoordinates(rows_final)
         IN  /\ Len(geoFile.features) = Len(located)
             /\ \A k \in 1..Len(located) :
                   /\ geoFile.features[k].type = "Feature"
                   /\ geoFile.features[k].geometry.type = "Point"
                   /\ geoFile.features[k].geometry.coordinates
                          = <<located[k].lng[1], located[k].lat[1]>>
                   /\ geoFile.features[k].properties = located[k]
             /\ csvFile.rows = rows_final

\* C13 witness: a run wrote a row with a coordinate of 0 and a row without a
\* coordinate; the first is a Feature, the second only a CSV line.
C13_Witness ==
    /\ pc = "done" /\ Len(rows_final) = 2
    /\ rows_final[1].lat = None
    /\ rows_final[2].lat = Some(0) /\ rows_final[2].lng # None
    /\ Len(geoFile.features) = 1
    /\ geoFile.features[1].geometry.coordinates[2] = 0
    /\ Len(csvFile.rows) = 2

\* C14: no run writes more rows than its max_results (when that is at least
\* 1), nor more than 100 in the fast variant; the same holds of the rows the
\* collector holds and of the rows left after dedupe.
C14_AtMostMaxResults ==
    /\ \A i \in 1..Len(hist) :
          /\ hist[i].args.max_results >= 1
                => hist[i].written <= hist[i].args.max_results
          /\ hist[i].args.variant = "fast" => hist[i].written <= 100
    /\ pc # "idle"
          => /\ args.max_results >= 1
                   => /\ Len(out) <= args.max_results
                      /\ Len(rows_final) <= args.max_results
             /\ args.variant = "fast"
                   => Len(out) <= 100 /\ Len(rows_final) <= 100

\* C14 witness: a fast run asked for more than 100 places wrote exactly 100.
C14_Witness ==
    /\ pc = "done"
    /\ args.variant = "fast" /\ args.max_results > 100
    /\ Last(hist).written = 100
    /\ Len(csvFile.rows) = 100

\* a run of the full variant stopped at its max_results with hits left over
C14_WitnessFull ==
    /\ pc = "dedupe" /\ args.variant = "full"
    /\ Len(out) = args.max_results
    /\ gap.last # "none"

\* the offset pairs the claim gives for a steps value
LatticeOffsets(steps) ==
    LET N == IF steps < 1 THEN 1 ELSE steps
    IN  {<<dy, dx>> : dy \in (0 - N)..N, dx \in (0 - N)..N}

\* C15: the grid of a nearby run has (2N+1)*(2N+1) centres for N = steps
\* (1 when steps < 1), one for each offset pair of -N..N x -N..N, (0, 0)
\* among them; 25 for steps = 2 and 49 for steps = 3; the collector never
\* goes past the last centre.
C15_GridIsFullLattice ==
    (pc # "idle" /\ args.mode = "nearby")
      => LET g == make_grid(args.grid_steps)
             N == IF args.grid_steps < 1 THEN 1 ELSE args.grid_steps
         IN  /\ Len(g) = (2 * N + 1) * (2 * N + 1)
             /\ Range(g) = LatticeOffsets(args.grid_steps)
             /\ \A j, k \in 1..Len(g) : g[j] = g[k] => j = k
             /\ <<0, 0>> \in Range(g)
             /\ args.grid_steps = 2 => Len(g) = 25
             /\ args.grid_steps = 3 => Len(g) = 49
             /\ args.grid_steps < 1 => g = make_grid(1)
             /\ gridPos <= Len(g) + 1
             /\ pc = "search" => gridPos <= Len(g)

\* C15 witness: a nearby run with steps = 2 is about to search its 25th and
\* last centre.
C15_Witness ==
    /\ pc = "search" /\ args.mode = "nearby"
    /\ args.grid_steps = 2
    /\ gridPos = 25
    /\ make_grid(args.grid_steps)[gridPos] = <<2, 2>>

\* runs i < j have ended, had the same command line and got the same answers
Repeated(i, j) ==
    /\ i < j
    /\ hist[i].args = hist[j].args
    /\ hist[j].status # "running"
    /\ log.on /\ SameAnswers(log.runs[i], log.runs[j])

\* the later run ended as the earlier one and exported the same identities
SameExport(i, j) ==
    /\ hist[j].status = hist[i].status
    /\ hist[j].exported = hist[i].exported
    /\ hist[j].written = hist[i].written

UsesCache(a) == a.variant = "full" /\ a.skip_seen

\* C16 as claimed: a repeated run exports what the first run exported,
\* whether or not the seen cache is enabled.
C16_SameExportOnRepeat ==
    \A i, j \in 1..Len(hist) : Repeated(i, j) => SameExport(i, j)

\* C16 as amended: a repeated run without the seen cache ended as the first
\* run did and exported the same identities, and the CSV file it leaves has
\* the rows of that export and no others.
C16_SameExportWithoutCache ==
    \A i, j \in 1..Len(hist) :
        (Repeated(i, j) /\ ~UsesCache(hist[j].args))
          => /\ SameExport(i, j)
             /\ (j = Len(hist) /\ pc = "done" /\ hist[j].written > 0)
                   => /\ Len(csvFile.rows) = hist[i].written
                      /\ PidsOf(csvFile.rows) = hist[i].exported

\* C16 witness: a second run without the seen cache got the answers of the
\* first and exported its two places again.
C16_Witness ==
    /\ Len(hist) = 2 /\ pc = "done"
    /\ Repeated(1, 2) /\ ~UsesCache(args)
    /\ Len(log.runs[2]) = Len(log.runs[1])
    /\ hist[1].written = 2 /\ hist[2].written = 2

\* C17: a run with --reset_seen that has ended left in the cache file the
\* identifiers that were in it before the run, and the next run, when it
\* uses the cache without reset, loads them.
C17_ResetLeavesCache ==
    \A i \in 1..Len(hist) :
        (hist[i].args.variant = "full" /\ hist[i].args.reset_seen
            /\ hist[i].status = "done")
          => /\ hist[i].before \subseteq hist[i].after
             /\ (i < Len(hist) /\ CacheRun(i + 1))
                   => hist[i].before \subseteq hist[i + 1].loaded

\* C17 for the identifiers a reset run saves itself: the next cache run
\* loads them
C17_NewIdsKept ==
    \A i \in 1..Len(hist) :
        (hist[i].args.variant = "full" /\ hist[i].args.reset_seen
            /\ hist[i].status = "done" /\ hist[i].saved
            /\ i < Len(hist) /\ CacheRun(i + 1))
          => hist[i].exported \subseteq hist[i + 1].loaded

\* the last search request carried a continuation token and its response,
\* with status INVALID_REQUEST, has been read.  The code sends a request with
\* a token only as the next request of the pagination that got the token.
TokenRequestInvalid ==
    /\ pc = "hits" /\ pending = 0
    /\ page_token
    /\ status = "INVALID_REQUEST"

\* C18: when the request sent with a fresh continuation token is answered
\* INVALID_REQUEST, the collector's next step is to send the request for the
\* same page, with the token, once more.
C18_RetriesInvalidTokenPage ==
    [][TokenRequestInvalid
          => /\ pc' = "search"
             /\ page_token'
             /\ gridPos' = gridPos /\ typeIdx' = typeIdx]_vars

\* what the collectors do instead: pagination ends there (the text collector
\* returns, the nearby collector goes on to the next type or centre)
C18_GivesUpAtOnce ==
    [][TokenRequestInvalid
          => \/ pc' = "dedupe"
             \/ pc' = "search" /\ ~page_token' /\ pageNo' = 0]_vars

\* C19: a search request that carries a continuation token is sent after at
\* least 2000 ms of sleep in which no request to any Google API was sent.
C19_TokenRequestAfterSettle ==
    (pc \in {"hits", "aborted"} /\ gap.last = "search" /\ page_token)
        => gap.ms >= 2000

\* C19 witness: the country of a hit was looked up after the response that
\* carried the token, and the request with the token followed the sleeps.
C19_Witness ==
    /\ pc = "hits" /\ page_token
    /\ gap.prev = "lookup" /\ gap.last = "search"
    /\ gap.ms >= 2000

\* C20: between two consecutive requests to the Places API of a run at least
\* the configured inter-call delay was slept.
C20_DelayBetweenPlacesRequests ==
    (pc # "idle" /\ gap.prev # "none") => gap.ms >= args.sleep_ms

\* the pairs of requests the code does pace: two pages of one pagination,
\* two details requests of the enrichment loop
C20_PacedPairs ==
    (pc # "idle"
        /\ \/ gap.prev = "details" /\ gap.last = "details"
           \/ gap.prev = "search" /\ gap.last = "search" /\ page_token
                 /\ pc \in {"hits", "aborted"})
      => gap.ms >= args.sleep_ms


\* the names of the tests in evals, in order
TestNames(ev) == [i \in 1..Len(ev) |-> ev[i].test]

\* the place the claim gives a filter in its order: area-token, country-code,
\* category, quality (the seen test comes before all of them)
ClaimedRank(test) ==
    CASE test = "seen"    -> 0
      [] test = "area"    -> 1
      [] test = "country" -> 2
      [] test = "include" -> 3
      [] test = "exclude" -> 3
      [] test = "quality" -> 4

\* the iteration stopped at the first test that failed
ShortCircuit(ev) == \A i \in 1..(Len(ev) - 1) : ev[i].ok

\* C21 as claimed: the tests evaluated on a hit come in the order area-token,
\* country-code, category, quality, and none is evaluated after one failed.
C21_CountryBeforeCategory ==
    /\ \A i, j \in 1..Len(evals) :
          i < j => ClaimedRank(evals[i].test) <= ClaimedRank(evals[j].test)
    /\ ShortCircuit(evals)

\* the order the collector of a command line has its tests in
CodeOrder(a) ==
    CASE a.variant = "full" /\ a.mode = "text"
            -> <<"seen", "area", "include", "exclude", "quality", "country">>
      [] a.variant = "full" /\ a.mode = "nearby"
            -> <<"seen", "area", "exclude", "quality", "country">>
      [] a.variant = "fast" /\ a.mode = "text"   -> <<"area", "include", "quality">>
      [] a.variant = "fast" /\ a.mode = "nearby" -> <<"area", "quality">>

\* C21 as amended: the tests evaluated on a hit are the first tests of the
\* collector's own order (seen, area-token, category, quality, country-code
\* last), none is evaluated after one failed, and the country lookup is
\* requested exactly in the iterations that reach the country test.
C21_CountryLookupLast ==
    /\ [](/\ Len(evals) <= Len(CodeOrder(args))
          /\ TestNames(evals) = SubSeq(CodeOrder(args), 1, Len(evals))
          /\ ShortCircuit(evals))
    /\ [][evals' # <<>>
            => IF evals'[Len(evals')].test = "country"
               THEN gap' = PlacesRequest(gap, "lookup", waited) /\ waited' = 0
               ELSE gap' = gap /\ waited' = waited]_vars

\* C21 witness: a hit that passed the seen, area and category tests failed
\* the quality test; the iteration ended there and no lookup was requested.
C21_Witness ==
    /\ pc = "hits" /\ args.variant = "full" /\ args.mode = "text"
    /\ TestNames(evals) = <<"seen", "area", "include", "exclude", "quality">>
    /\ ~evals[Len(evals)].ok
    /\ gap.last = "search"

\* a hit went through every test and the lookup, and was emitted
C21_WitnessPassed ==
    /\ pc = "hits" /\ args.variant = "full" /\ args.mode = "text"
    /\ TestNames(evals) = CodeOrder(args)
    /\ evals[Len(evals)].ok
    /\ gap.last = "lookup"
    /\ out # <<>>


\* the rows in another arrival order: row i is the row p[i] of rows
Permuted(rows, p) == [i \in 1..Len(rows) |-> rows[p[i]]]

\* the arrival orders of the collected rows
ArrivalOrders == Permutations(1..Len(out))

KeysOf(rows) == {IdentityKey(rows[i]) : i \in 1..Len(rows)}

\* the row kept for key k in a deduplicated list
RepOf(rows, k) == rows[CHOOSE i \in 1..Len(rows) : IdentityKey(rows[i]) = k]

\* two different rows with key k both have the largest review count of the
\* rows with that key
TiedAtMax(rows, k) ==
    \E i, j \in 1..Len(rows) :
        /\ IdentityKey(rows[i]) = k /\ IdentityKey(rows[j]) = k
        /\ rows[i] # rows[j]
        /\ rows[i].user_ratings_total = rows[j].user_ratings_total
        /\ \A n \in 1..Len(rows) :
              IdentityKey(rows[n]) = k
                => rows[n].user_ratings_total <= rows[i].user_ratings_total

\* the dedup step has just run on out
JustDeduped == pc \in {"enrich", "final"} /\ enrichPos = 1

\* C22 as claimed: in whatever order the collected rows had arrived, the
\* dedup step would have given the set of rows it gave.
C22_SameRecordsInAnyOrder ==
    JustDeduped =>
        \A p \in ArrivalOrders :
            Range(Dedupe(Permuted(out, p), args)) = Range(rows_final)

\* C22 as claimed, for the full variant alone
C22_FullVariant ==
    args.variant = "full" => C22_SameRecordsInAnyOrder

\* C22 as amended: in whatever order the collected rows had arrived, the
\* dedup step would have kept the same identity keys, one row each; in the
\* full variant the row kept for a key has the same review count in every
\* order, and is the same row unless two different rows tie at the largest
\* count of that key.
C22_SameKeysInAnyOrder ==
    JustDeduped =>
        \A p \in ArrivalOrders :
            LET d == Dedupe(Permuted(out, p), args)
            IN  /\ KeysOf(d) = KeysOf(rows_final)
                /\ Len(d) = Len(rows_final)
                /\ args.variant = "full" =>
                      \A k \in KeysOf(d) :
                          /\ RepOf(d, k).user_ratings_total
                                = RepOf(rows_final, k).user_ratings_total
                          /\ ~TiedAtMax(out, k) => RepOf(d, k) = RepOf(rows_final, k)

\* C22 witness: the full variant deduplicated three rows of two keys, the
\* two rows of one key with different review counts, the better one last.
C22_Witness ==
    /\ JustDeduped /\ args.variant = "full"
    /\ Len(out) = 3 /\ Len(rows_final) = 2
    /\ \E i, j \in 1..3 :
          /\ i < j /\ IdentityKey(out[i]) = IdentityKey(out[j])
          /\ out[i].user_ratings_total < out[j].user_ratings_total
          /\ out[j] \in Range(rows_final)


\* the fields of a row the claim says enrichment leaves alone
Identity(r) == <<r.place_id, r.rating, r.user_ratings_total, r.lat, r.lng>>

\* C23: an iteration of the details loop, whether its request fails or not,
\* does not end the run, leaves the number of rows and every row's place_id,
\* rating, review count and coordinates as they were, and goes on to the next
\* row: a row with a place_id is requested, and the loop ends only after the
\* last row.
C23_FailedDetailsKeepsRecords ==
    [][pc = "enrich"
          => /\ pc' = IF enrichPos < Len(rows_final) THEN "enrich" ELSE "final"
             /\ enrichPos' = enrichPos + 1
             /\ Len(rows_final') = Len(rows_final)
             /\ \A i \in 1..Len(rows_final) :
                   Identity(rows_final'[i]) = Identity(rows_final[i])
             /\ rows_final[enrichPos].place_id # ""
                   => gap' = PlacesRequest(gap, "details", waited)
             /\ Last(hist').status = "running"]_vars

\* C23 witness: the details request of the first of two rows failed, the
\* second row was requested after it and enriched, and the run goes on with
\* both rows.
C23_Witness ==
    /\ pc = "final" /\ args.details
    /\ Len(rows_final) = 2 /\ enrichPos = 3
    /\ rows_final[1].place_id # "" /\ ~rows_final[1].enriched
    /\ rows_final[2].enriched
    /\ gap.prev = "details" /\ gap.last = "details"
    /\ Last(hist).status = "running"


\* a search request of the current run raised (an HTTP error status), and
\* the exception left main()
SearchErrorEndedRun ==
    /\ pc = "aborted"
    /\ gap.last = "search"
    /\ Last(hist).status = "aborted"

\* C24: a provider error on a search request does not leave main() as an
\* exception: no run is ended by it.
C24_SearchErrorContained == ~SearchErrorEndedRun

\* what the code does with the rows collected before the failing request:
\* a run that an exception ended has written nothing and saved no cache
C24_AbortedRunWritesNothing ==
    \A i \in 1..Len(hist) :
        hist[i].status = "aborted"
            => hist[i].written = 0 /\ hist[i].exported = {} /\ ~hist[i].saved

\* rows were collected on the first page and the request for the second page
\* raised: the rows are lost
C24_RowsLost ==
    /\ SearchErrorEndedRun
    /\ out # <<>>
    /\ ~csvFile.exists


\* every run of the first process so far used the seen cache without reset
AllCacheRuns == \A i \in 1..Len(hist) : CacheRun(i)

\* the identifiers exported so far by the runs of either process
ExportedByAll == other.exported \cup UNION {hist[i].exported : i \in 1..Len(hist)}

\* C25, sequential part: as long as the run of the second process has not
\* overlapped a run of the first, every identifier exported by a run that
\* used the seen cache is in the persisted cache.
C25_SequentialKeepsAll ==
    (~other.overlap /\ AllCacheRuns) => ExportedByAll \subseteq Persisted(file)

\* C25, concurrent part (witness): the second process ran between the load
\* and the save of a run of the first; both runs exported and saved, and an
\* identifier one of them exported is not in the persisted cache.
C25_LostUpdate ==
    /\ other.overlap /\ AllCacheRuns
    /\ other.pc = "done" /\ other.saved
    /\ pc = "done" /\ Last(hist).saved
    /\ ~(ExportedByAll \subseteq Persisted(file))


\* the pagination of the current grid centre and type has ended: the
\* collector is about to start the next one, or has returned, or the run is
\* over
PaginationEnded ==
    \/ pc = "search" /\ ~page_token
    \/ pc \notin {"search", "hits"}

\* C26: collection terminates whatever the responses: a text run sends at
\* most max(1, pages) search requests, and in nearby mode the pagination of
\* each grid centre and type ends.
C26_CollectionTerminates ==
    /\ []((pc # "idle" /\ args.mode = "text") => pageNo <= Max(1, args.pages))
    /\ (pc = "hits" /\ args.mode = "nearby") ~> PaginationEnded

\* the text part of C26 alone
C26_TextAtMostPages ==
    (pc # "idle" /\ args.mode = "text") => pageNo <= Max(1, args.pages)

\* a text run of 3 pages got a token with each response and stopped after
\* its third request
C26_TextStopped ==
    /\ pc = "dedupe" /\ args.mode = "text" /\ args.pages = 3
    /\ pageNo = 3 /\ next_token
    /\ Len(out) < Cap(args)

\* every run ends
C26_RunEnds == (pc = "geocode") ~> (pc \in {"done", "aborted"})

====
